---- MODULE Spec2Model ----
(***************************************************************************)
(* Seat allocation and invitation lifecycle of the invite portal:          *)
(* POST /api/join, the admin member kick, the admin revoke of an invite,   *)
(* the deletion of teams and keys, the auto-kick configuration and         *)
(* the "Auto Kick Service" cron job of deno-invite-portal/main.ts, over    *)
(* the Deno KV records of lib/db.ts (teams, keys, invitations, the         *)
(* invitations_by_email index, kick logs, the auto-kick config) and the    *)
(* remote team service (rosters and outstanding invites).                  *)
(*                                                                         *)
(* Every await of a handler is one step: the KV or remote operation it     *)
(* waits for, followed by the synchronous code up to the next await.       *)
(* Spec runs the handlers one at a time, each to completion; SpecTick adds *)
(* the clock, the configuration and the cron job; SpecConc interleaves two *)
(* join requests at their awaits.                                          *)
(* SpecRace lets the two requests repeat and the remote service fail;      *)
(* SpecDel interleaves one join with the admin deleting teams; SpecLedger  *)
(* adds DB.updateInvitation to the joins and the cron job; SpecSync is the *)
(* cron job alone under the fairness its schedule gives it. SpecMail       *)
(* gives the join emails as typed (capitals, surrounding blanks);          *)
(* SpecRevoke is the revoke of an outstanding invite; SpecKeys runs joins  *)
(* with keys of every kind; SpecKeyDel and SpecKick interleave one join    *)
(* with the admin deleting keys and kicking members; SpecSingle races two  *)
(* joins on the single-use key.                                            *)
(***************************************************************************)
EXTENDS Integers, Sequences, FiniteSets, TLC

\* ---------------------------------------------------------------- bounds

\* Invitation ids the ledger may hand out in one run (crypto.randomUUID).
MaxInvites == 2
\* Largest number of further non-owner members (people other than the
\* joiners) a remote roster starts with.
MaxOthers == 4
\* Number of 12-hour clock steps the run may take.
MaxClock == 3
\* Invitation ids the ledger may hand out while two requests race.
MaxRaceInvites == 3

\* ------------------------------------------------------ program constants

\* main.ts:709  memberCount < 4
Capacity == 4
\* main.ts:685, 735  key.tempHours || 24
DefaultTempHours == 24
\* main.ts:685, 735  * 3600000
HourMs == 3600000

\* The clock advances in steps of 12 hours; the auto-kick configuration form
\* is offered the local hours the clock can show.
ClockStepMs == 12 * HourMs
HourChoices == {0, 12}

\* ------------------------------------------------------------ the values

\* An email address as the strings of the code see it: a name, whether it
\* is written with capital letters, whether it carries surrounding blanks.
Mail(n, up, pad) == [n |-> n, up |-> up, pad |-> pad]
NoEmail == Mail("", FALSE, FALSE)
OwnerEmail == Mail("owner", FALSE, FALSE)

toLowerCase(e) == [e EXCEPT !.up = FALSE]
trim(e) == [e EXCEPT !.pad = FALSE]

\* Emails a join request may carry.
JoinEmails == {Mail("a", FALSE, FALSE), Mail("b", FALSE, FALSE)}
\* Emails the named non-owner members of a remote roster may start with.
RosterEmails == {Mail("a", TRUE, FALSE)}

Teams == {"A", "B"}
KeyCodes == {"kS", "kT", "kU"}
Procs == {1, 2}

NoTeam == [exists |-> FALSE]
NoKey == [exists |-> FALSE]
NoConfig == [exists |-> FALSE]
NoSelected == [id |-> "", memberCount |-> 0]
\* undefined, for the optional number fields (tempHours, tempExpireAt,
\* lastInviteAt).
Unset == -1

\* tempHours of the temp key: not set, 0, or 12.
TempHoursChoices == {Unset, 0, 12}

Owner == [email |-> OwnerEmail, role |-> "account-owner"]
Member(e) == [email |-> e, role |-> "standard-user"]

VARIABLES
  teams,        \* ["teams", id] -> Team
  keys,         \* ["keys", code] -> AccessKey
  invitations,  \* ["invitations", id] -> Invitation, as the set of records
  invIndex,     \* ["invitations_by_email", email, teamId] -> id
  kickLogs,     \* ["kick_logs", id] -> KickLog
  config,       \* ["config", "auto_kick"] -> AutoKickConfig
  nextId,       \* the next invitation id crypto.randomUUID hands out
  roster,       \* remote: the named members of each team, owner included
  others,       \* remote: the number of further non-owner members
  pending,      \* remote: the emails with an outstanding invite per team
  now,          \* Date.now(), in ms
  jp,           \* the join requests in flight: locals and position
  adm,          \* the admin kick request in flight
  tick,         \* what the last run of the cron job did
  okKeys        \* history: key codes a join has answered success with

store == <<teams, keys, invitations, invIndex, kickLogs, config, nextId>>
remote == <<roster, others, pending>>
vars == <<teams, keys, invitations, invIndex, kickLogs, config, nextId,
          roster, others, pending, now, jp, adm, tick, okKeys>>

\* --------------------------------------------------------------- lib/db.ts

\* DB.createTeam: a new team is active with a cached member count of 0.
createTeam(createdAt) ==
  [exists |-> TRUE, createdAt |-> createdAt, tokenStatus |-> "active",
   memberCount |-> 0, lastInviteAt |-> Unset]

\* DB.createAccessKey: usageCount starts at 0.
createAccessKey(isTemp, isUnlimited, tempHours) ==
  [exists |-> TRUE, isTemp |-> isTemp, isUnlimited |-> isUnlimited,
   tempHours |-> tempHours, usageCount |-> 0]

\* DB.listTeams: the stored teams, newest first.
RECURSIVE SortByCreatedAtDesc(_, _)
SortByCreatedAtDesc(ts, S) ==
  IF S = {} THEN <<>>
  ELSE LET t == CHOOSE x \in S : \A y \in S : ts[x].createdAt >= ts[y].createdAt
       IN <<t>> \o SortByCreatedAtDesc(ts, S \ {t})

listTeams(ts) ==
  LET order == SortByCreatedAtDesc(ts, {t \in Teams : ts[t].exists})
  IN [i \in 1..Len(order) |-> [id |-> order[i], tokenStatus |-> ts[order[i]].tokenStatus]]

\* DB.getAccessKey: the stored key, or null.
getAccessKey(ks, code) == IF code \in DOMAIN ks THEN ks[code] ELSE NoKey

\* DB.updateTeam, the write: { ...team, ...updates }.
MergeTeam(team, updates) ==
  [f \in DOMAIN team |-> IF f \in DOMAIN updates THEN updates[f] ELSE team[f]]

\* Faulty variant of Bumped: the increment is lost.
BumpedNoIncrement(key) == key

\* DB.incrementKeyUsage, the write: key.usageCount++.
Bumped(key) == [key EXCEPT !.usageCount = @ + 1]

\* DB.createInvitation: the stored email is invite.email.trim().toLowerCase().
NewInvitation(id, invite, t) ==
  [id |-> id, teamId |-> invite.teamId, email |-> toLowerCase(trim(invite.email)),
   keyCode |-> invite.keyCode, status |-> invite.status, isTemp |-> invite.isTemp,
   tempExpireAt |-> invite.tempExpireAt, isConfirmed |-> invite.isConfirmed,
   createdAt |-> t]

\* DB.createInvitation: kv.set(["invitations_by_email", email, teamId], id)
\* replaces the entry of that (email, team).
IndexSet(idx, email, teamId, id) ==
  {x \in idx : ~(x.email = email /\ x.teamId = teamId)}
    \cup {[email |-> email, teamId |-> teamId, id |-> id]}

\* Faulty variant of Matches: the filter forgets the team.
MatchesAnyTeam(invs, teamId, email) ==
  {inv \in invs : toLowerCase(trim(inv.email)) = toLowerCase(trim(email))}

\* DB.deleteInvitationsByEmail: the filter of the records to delete.
Matches(invs, teamId, email) ==
  {inv \in invs : inv.teamId = teamId
                  /\ toLowerCase(trim(inv.email)) = toLowerCase(trim(email))}

\* Faulty variant of getAutoKickConfig: the default is enabled.
getAutoKickConfigDefaultOn(cfg) ==
  IF cfg.exists THEN cfg
  ELSE [exists |-> TRUE, enabled |-> TRUE, startHour |-> 0, endHour |-> 23]

\* DB.getAutoKickConfig: the stored value, or the disabled default.
getAutoKickConfig(cfg) ==
  IF cfg.exists THEN cfg
  ELSE [exists |-> TRUE, enabled |-> FALSE, startHour |-> 0, endHour |-> 23]

\* ---------------------------------------------------- main.ts, POST /api/join

\* nonOwnerMembers: members.filter(m => m?.role !== "account-owner").
nonOwnerMembers(members) == {m \in members : m.role # "account-owner"}

\* memberCount = nonOwnerMembers.length, the unnamed members counted in.
memberCount(members, unnamed) == Cardinality(nonOwnerMembers(members)) + unnamed

\* Faulty variant of memberEmails: the emails are compared as the roster spells them.
memberEmailsKeepCase(members) ==
  {m.email : m \in nonOwnerMembers(members)} \ {NoEmail}

\* memberEmails: the lower-cased, non-empty emails of the non-owner members.
memberEmails(members) ==
  {toLowerCase(m.email) : m \in nonOwnerMembers(members)} \ {NoEmail}

\* Faulty variant of KeyAlreadyUsed: every used key is rejected.
KeyAlreadyUsedAnyKind(key) == key.usageCount > 0

\* Check if key is used: !key.isUnlimited && !key.isTemp && key.usageCount > 0.
KeyAlreadyUsed(key) == ~key.isUnlimited /\ ~key.isTemp /\ key.usageCount > 0

\* key.tempHours || 24: undefined and 0 are both falsy.
TempHours(key) ==
  IF key.tempHours = Unset \/ key.tempHours = 0 THEN DefaultTempHours
  ELSE key.tempHours

\* Faulty variant of TempExpireAt: the duration alone, Date.now() forgotten.
TempExpireAtDurationOnly(key, t) ==
  IF key.isTemp THEN TempHours(key) * HourMs ELSE Unset

\* tempExpireAt: key.isTemp ? Date.now() + (key.tempHours || 24) * 3600000 : undefined.
TempExpireAt(key, t) ==
  IF key.isTemp THEN t + TempHours(key) * HourMs ELSE Unset

\* Faulty variants of IsCandidate: a later team with capacity replaces the selected
\* one; a team with exactly 4 non-owner members still counts as having room.
IsCandidateLast(count, selected) == count < Capacity
IsCandidateAtCapacity(count, selected) == count <= Capacity /\ selected = NoSelected

\* if (memberCount < 4 && !selectedTeam) selectedTeam = refreshed.
IsCandidate(count, selected) == count < Capacity /\ selected = NoSelected

\* for (const team of teams) { if (team.tokenStatus === "expired") continue; ...
\* the index of the next team of the list the loop body runs for, from i on;
\* 0 when the loop ends.
RECURSIVE NextTeam(_, _)
NextTeam(list, i) ==
  IF i > Len(list) THEN 0
  ELSE IF list[i].tokenStatus = "expired" THEN NextTeam(list, i + 1)
  ELSE i

Idle ==
  [pc |-> "idle", email |-> NoEmail, code |-> "", key |-> NoKey, list |-> <<>>,
   idx |-> 0, count |-> 0, isMember |-> FALSE, selected |-> NoSelected,
   read |-> NoTeam, readKey |-> NoKey, newId |-> 0, created |-> {}, calls |-> <<>>, resp |-> [kind |-> "", team |-> ""]]

\* ctx.response is set and the handler is about to return.
Answered(j, kind, team) ==
  [j EXCEPT !.pc = "done", !.resp = [kind |-> kind, team |-> team]]

\* Faulty variant of Continue: the loop ends as soon as a team is selected.
ContinueStopsAtCandidate(j, from) ==
  LET i == NextTeam(j.list, from) IN
  IF j.selected # NoSelected THEN [j EXCEPT !.pc = "invite", !.idx = 0, !.read = NoTeam]
  ELSE IF i # 0 THEN [j EXCEPT !.pc = "fetch", !.idx = i, !.read = NoTeam]
  ELSE Answered(j, "NoAvailableTeams", "")

\* The loop goes on with the next team, or ends: no selected team answers
\* "No available teams at the moment", a selected one is invited into.
Continue(j, from) ==
  LET i == NextTeam(j.list, from) IN
  IF i # 0 THEN [j EXCEPT !.pc = "fetch", !.idx = i, !.read = NoTeam]
  ELSE IF j.selected = NoSelected THEN Answered(j, "NoAvailableTeams", "")
  ELSE [j EXCEPT !.pc = "invite", !.idx = 0, !.read = NoTeam]

\* The team an updateTeam of the handler is about: the team of the loop, or
\* the selected team once the loop has ended.
Target(j) ==
  IF j.pc \in {"countGet", "countSet", "inviteCatchGet", "inviteCatchSet"}
  THEN j.selected.id
  ELSE j.list[j.idx].id

\* Faulty variant of Updates: the catch of the invite counts the member too.
UpdatesCatchCounts(j, t) ==
  CASE j.pc = "refreshSet" -> [memberCount |-> j.count, tokenStatus |-> "active"]
    [] j.pc = "catchSet" -> [tokenStatus |-> "expired"]
    [] j.pc = "countSet" -> [memberCount |-> j.selected.memberCount + 1, lastInviteAt |-> t]
    [] j.pc = "inviteCatchSet" ->
         [tokenStatus |-> "expired", memberCount |-> j.selected.memberCount + 1]

\* The updates each updateTeam call of the handler passes.
Updates(j, t) ==
  CASE j.pc = "refreshSet" -> [memberCount |-> j.count, tokenStatus |-> "active"]
    [] j.pc = "catchSet" -> [tokenStatus |-> "expired"]
    [] j.pc = "countSet" -> [memberCount |-> j.selected.memberCount + 1, lastInviteAt |-> t]
    [] j.pc = "inviteCatchSet" -> [tokenStatus |-> "expired"]

\* const { email, key_code } = await ctx.request.body.json(), and the
\* "Missing fields" check.
JoinRequest(p, email, code) ==
  /\ jp[p].pc = "idle"
  /\ nextId + Cardinality({q \in Procs \ {p} : jp[q].pc # "idle"}) <= MaxInvites
  /\ jp' = [jp EXCEPT ![p] =
       IF email = NoEmail
       THEN Answered([Idle EXCEPT !.email = email, !.code = code], "MissingFields", "")
       ELSE [Idle EXCEPT !.pc = "getKey", !.email = email, !.code = code]]
  /\ UNCHANGED <<store, remote, now, adm, tick, okKeys>>

\* 1. Validate Key, 2. Check if key is used.
ValidateKey(p) ==
  LET j == jp[p]
      key == getAccessKey(keys, j.code)
  IN /\ j.pc = "getKey"
     /\ jp' = [jp EXCEPT ![p] =
          IF ~key.exists THEN Answered(j, "InvalidKey", "")
          ELSE IF KeyAlreadyUsed(key) THEN Answered([j EXCEPT !.key = key], "KeyAlreadyUsed", "")
          ELSE [j EXCEPT !.pc = "listTeams", !.key = key]]
     /\ UNCHANGED <<store, remote, now, adm, tick, okKeys>>

\* 3. const teams = await DB.listTeams(); the loop starts.
ListTeams(p) ==
  LET j == jp[p] IN
  /\ j.pc = "listTeams"
  /\ jp' = [jp EXCEPT ![p] = Continue([j EXCEPT !.list = listTeams(teams)], 1)]
  /\ UNCHANGED <<store, remote, now, adm, tick, okKeys>>

\* fetchTeamMembers of the loop's team: the roster, or an error ("Token
\* expired" on 401, "API Error" otherwise) the loop's catch takes.
FetchTeamMembers(p, outcome) ==
  LET j == jp[p]
      t == j.list[j.idx].id
      called == [j EXCEPT !.calls = Append(@, [op |-> "listMembers", team |-> t, outcome |-> outcome])]
  IN /\ j.pc = "fetch"
     /\ jp' = [jp EXCEPT ![p] =
          IF outcome = "ok"
          THEN [called EXCEPT !.pc = "refreshGet",
                              !.count = memberCount(roster[t], others[t]),
                              !.isMember = toLowerCase(j.email) \in memberEmails(roster[t])]
          ELSE [called EXCEPT !.pc = "catchGet"]]
     /\ UNCHANGED <<store, remote, now, adm, tick, okKeys>>

\* DB.updateTeam, the read: const team = await this.getTeam(id); a missing
\* team throws "Team not found", which the enclosing try catches if there
\* is one.
UpdateTeamGet(p) ==
  LET j == jp[p]
      t == Target(j)
  IN /\ j.pc \in {"refreshGet", "catchGet", "countGet", "inviteCatchGet"}
     /\ jp' = [jp EXCEPT ![p] =
          IF teams[t].exists
          THEN [j EXCEPT !.read = teams[t],
                         !.pc = CASE j.pc = "refreshGet" -> "refreshSet"
                                  [] j.pc = "catchGet" -> "catchSet"
                                  [] j.pc = "countGet" -> "countSet"
                                  [] j.pc = "inviteCatchGet" -> "inviteCatchSet"]
          ELSE CASE j.pc = "refreshGet" -> [j EXCEPT !.pc = "catchGet"]
                 [] j.pc = "countGet" -> Answered(j, "InviteFailed", t)
                 [] OTHER -> Answered(j, "ServerError", t)]
     /\ UNCHANGED <<store, remote, now, adm, tick, okKeys>>

\* DB.updateTeam, the write: kv.set(["teams", id], { ...team, ...updates }),
\* and what the handler does with the result.
UpdateTeamSet(p) ==
  LET j == jp[p]
      t == Target(j)
  IN /\ j.pc \in {"refreshSet", "catchSet", "countSet", "inviteCatchSet"}
     /\ teams' = [teams EXCEPT ![t] = MergeTeam(j.read, Updates(j, now))]
     /\ jp' = [jp EXCEPT ![p] =
          CASE j.pc = "refreshSet" ->
                 IF j.isMember THEN [j EXCEPT !.pc = "memberInvitation", !.read = NoTeam]
                 ELSE Continue(
                        IF IsCandidate(j.count, j.selected)
                        THEN [j EXCEPT !.selected = [id |-> t, memberCount |-> j.count]]
                        ELSE j,
                        j.idx + 1)
            [] j.pc = "catchSet" -> Continue(j, j.idx + 1)
            [] j.pc = "countSet" -> Answered(j, "Invited", t)
            [] j.pc = "inviteCatchSet" -> Answered(j, "InviteFailed", t)]
     /\ okKeys' = IF j.pc = "countSet" THEN okKeys \cup {j.code} ELSE okKeys
     /\ UNCHANGED <<keys, invitations, invIndex, kickLogs, config, nextId,
                    remote, now, adm, tick>>

\* 4. Invite: inviteToTeam(selectedTeam, email). A failure is answered with
\* the upstream message; one whose message holds "401" or "expired" first
\* marks the team expired.
InviteToTeam(p, outcome) ==
  LET j == jp[p]
      t == j.selected.id
      called == [j EXCEPT !.calls = Append(@, [op |-> "invite", team |-> t, outcome |-> outcome])]
  IN /\ j.pc = "invite"
     /\ pending' = IF outcome = "ok" THEN [pending EXCEPT ![t] = @ \cup {j.email}]
                   ELSE pending
     /\ jp' = [jp EXCEPT ![p] =
          CASE outcome = "ok" -> [called EXCEPT !.pc = "newInvitation"]
            [] outcome = "401" -> [called EXCEPT !.pc = "inviteCatchGet"]
            [] OTHER -> Answered(called, "InviteFailed", t)]
     /\ UNCHANGED <<store, roster, others, now, adm, tick, okKeys>>

\* DB.createInvitation, the first write: kv.set(["invitations", id], newInvite).
CreateInvitation(p) ==
  LET j == jp[p]
      t == IF j.pc = "memberInvitation" THEN j.list[j.idx].id ELSE j.selected.id
      invite == [teamId |-> t, email |-> j.email, keyCode |-> j.code,
                 status |-> "success", isTemp |-> j.key.isTemp,
                 tempExpireAt |-> TempExpireAt(j.key, now), isConfirmed |-> FALSE]
  IN /\ j.pc \in {"memberInvitation", "newInvitation"}
     /\ invitations' = invitations \cup {NewInvitation(nextId, invite, now)}
     /\ nextId' = nextId + 1
     /\ jp' = [jp EXCEPT ![p] =
          [j EXCEPT !.newId = nextId, !.created = @ \cup {nextId},
                    !.pc = IF j.pc = "memberInvitation" THEN "memberIndex" ELSE "newIndex"]]
     /\ UNCHANGED <<teams, keys, invIndex, kickLogs, config, remote, now, adm, tick, okKeys>>

\* DB.createInvitation, the second write: the index entry of (email, team).
IndexInvitation(p) ==
  LET j == jp[p]
      t == IF j.pc = "memberIndex" THEN j.list[j.idx].id ELSE j.selected.id
  IN /\ j.pc \in {"memberIndex", "newIndex"}
     /\ invIndex' = IndexSet(invIndex, toLowerCase(trim(j.email)), t, j.newId)
     /\ jp' = [jp EXCEPT ![p] =
          [j EXCEPT !.pc = IF j.pc = "memberIndex" THEN "memberUsageGet" ELSE "newUsageGet"]]
     /\ UNCHANGED <<teams, keys, invitations, kickLogs, config, nextId,
                    remote, now, adm, tick, okKeys>>

\* What follows incrementKeyUsage: the already-a-member answer, or the
\* update of the selected team's cached count.
AfterUsage(j) ==
  IF j.pc \in {"memberUsageGet", "memberUsageSet"}
  THEN Answered(j, "AlreadyMember", j.list[j.idx].id)
  ELSE [j EXCEPT !.pc = "countGet", !.readKey = NoKey]

\* DB.incrementKeyUsage, the read: const key = await this.getAccessKey(code);
\* a missing key ends it.
IncrementKeyUsageGet(p) ==
  LET j == jp[p] IN
  /\ j.pc \in {"memberUsageGet", "newUsageGet"}
  /\ jp' = [jp EXCEPT ![p] =
       IF keys[j.code].exists
       THEN [j EXCEPT !.readKey = keys[j.code],
                      !.pc = IF j.pc = "memberUsageGet" THEN "memberUsageSet" ELSE "newUsageSet"]
       ELSE AfterUsage(j)]
  /\ okKeys' = IF j.pc = "memberUsageGet" /\ ~keys[j.code].exists
               THEN okKeys \cup {j.code} ELSE okKeys
  /\ UNCHANGED <<store, remote, now, adm, tick>>

\* DB.incrementKeyUsage, the write: key.usageCount++; kv.set(["keys", code], key).
IncrementKeyUsageSet(p) ==
  LET j == jp[p] IN
  /\ j.pc \in {"memberUsageSet", "newUsageSet"}
  /\ keys' = [keys EXCEPT ![j.code] = Bumped(j.readKey)]
  /\ jp' = [jp EXCEPT ![p] = AfterUsage(j)]
  /\ okKeys' = IF j.pc = "memberUsageSet" THEN okKeys \cup {j.code} ELSE okKeys
  /\ UNCHANGED <<teams, invitations, invIndex, kickLogs, config, nextId,
                 remote, now, adm, tick>>

\* The response is sent and the handler returns.
JoinReturn(p) ==
  /\ jp[p].pc = "done"
  /\ jp' = [jp EXCEPT ![p] = Idle]
  /\ UNCHANGED <<store, remote, now, adm, tick, okKeys>>

\* One step of the join request p, the remote service answering its calls
\* with one of outcomes.
JoinStepWith(p, outcomes) ==
  \/ JoinReturn(p)
  \/ ValidateKey(p)
  \/ ListTeams(p)
  \/ \E outcome \in outcomes : FetchTeamMembers(p, outcome)
  \/ UpdateTeamGet(p)
  \/ UpdateTeamSet(p)
  \/ \E outcome \in outcomes : InviteToTeam(p, outcome)
  \/ CreateInvitation(p)
  \/ IndexInvitation(p)
  \/ IncrementKeyUsageGet(p)
  \/ IncrementKeyUsageSet(p)

JoinStep(p) == JoinStepWith(p, {"ok", "401", "500"})

\* ------------------- main.ts, DELETE /api/admin/teams/:id/members/:userId

AdmIdle ==
  [pc |-> "idle", team |-> "", member |-> Owner, email |-> NoEmail,
   invites |-> {}, matches |-> {}, todo |-> {}, count |-> 0, resp |-> ""]

\* ctx.response is set and the handler is about to return.
AdmAnswered(a, resp) == [a EXCEPT !.pc = "done", !.resp = resp]

\* const team = await DB.getTeam(id) (404 if there is none), and the email
\* of the request body, "" when the body has none.
KickRequest(t, m, email) ==
  /\ adm.pc = "idle"
  /\ adm' = IF teams[t].exists
            THEN [AdmIdle EXCEPT !.pc = "kick", !.team = t, !.member = m, !.email = email]
            ELSE AdmAnswered([AdmIdle EXCEPT !.team = t, !.member = m, !.email = email],
                             "TeamNotFound")
  /\ UNCHANGED <<store, remote, now, jp, tick, okKeys>>

\* kickMember: the remote DELETE of the user. It succeeds only for a user of
\* the roster; a failure is answered 500 and the ledger is left alone.
KickMember(outcome) ==
  LET ok == outcome = "ok" /\ adm.member \in roster[adm.team] IN
  /\ adm.pc = "kick"
  /\ roster' = IF ok THEN [roster EXCEPT ![adm.team] = @ \ {adm.member}] ELSE roster
  /\ adm' = IF ~ok THEN AdmAnswered(adm, "KickFailed")
            ELSE IF adm.email = NoEmail THEN AdmAnswered(adm, "Success")
            ELSE [adm EXCEPT !.pc = "list"]
  /\ UNCHANGED <<store, others, pending, now, jp, tick, okKeys>>

\* DB.deleteInvitationsByEmail: const invites = await this.listInvitations()
\* and the filter of the matches.
DeleteInvitationsList ==
  LET matches == Matches(invitations, adm.team, adm.email) IN
  /\ adm.pc = "list"
  /\ adm' = [adm EXCEPT !.invites = invitations, !.matches = matches, !.todo = matches,
                        !.pc = IF matches = {} THEN "deleteIndex" ELSE "delete"]
  /\ UNCHANGED <<store, remote, now, jp, tick, okKeys>>

\* DB.deleteInvitationsByEmail: for (const inv of matches) kv.delete(["invitations",
\* inv.id]), newest first as listInvitations sorts them.
DeleteInvitation ==
  /\ adm.pc = "delete"
  /\ \E inv \in adm.todo :
       /\ \A other \in adm.todo : other.createdAt <= inv.createdAt
       /\ invitations' = {x \in invitations : x.id # inv.id}
       /\ adm' = [adm EXCEPT !.todo = @ \ {inv},
                             !.pc = IF adm.todo = {inv} THEN "deleteIndex" ELSE "delete"]
  /\ UNCHANGED <<teams, keys, invIndex, kickLogs, config, nextId, remote, now, jp,
                 tick, okKeys>>

\* DB.deleteInvitationsByEmail: kv.delete(["invitations_by_email", normalized,
\* teamId]) and return matches.length; the handler answers success.
DeleteInvitationIndex ==
  /\ adm.pc = "deleteIndex"
  /\ invIndex' = {x \in invIndex :
                    ~(x.email = toLowerCase(trim(adm.email)) /\ x.teamId = adm.team)}
  /\ adm' = AdmAnswered([adm EXCEPT !.count = Cardinality(adm.matches)], "Success")
  /\ UNCHANGED <<teams, keys, invitations, kickLogs, config, nextId, remote, now, jp,
                 tick, okKeys>>

\* The response is sent and the handler returns.
KickReturn ==
  /\ adm.pc = "done"
  /\ adm' = AdmIdle
  /\ UNCHANGED <<store, remote, now, jp, tick, okKeys>>

KickStep ==
  \/ KickReturn
  \/ \E outcome \in {"ok", "500"} : KickMember(outcome)
  \/ DeleteInvitationsList
  \/ DeleteInvitation
  \/ DeleteInvitationIndex

\* ------ main.ts, DELETE /api/admin/teams/:id/pending-invites/:inviteId

\* revokeInvite: the three attempts, in the order of the attempts array.
Attempts ==
  << [method |-> "DELETE", path |-> ""],
     [method |-> "POST", path |-> "/revoke"],
     [method |-> "POST", path |-> "/cancel"] >>

\* The HTTP statuses the remote service answers an attempt with.
Statuses == {200, 201, 204, 405, 500}

\* Faulty variant of RevokeOutcome: every failure goes on to the next attempt.
RevokeOutcomeTriesAll(n, status) ==
  IF status = 200 \/ status = 204 THEN "return"
  ELSE IF n = Len(Attempts) THEN "throw"
  ELSE "next"

\* What revokeInvite does with the status of its n-th attempt: return true
\* on 200 or 204, break out of the loop on anything but 405, and throw once
\* the loop is left.
RevokeOutcome(n, status) ==
  IF status = 200 \/ status = 204 THEN "return"
  ELSE IF status # 405 \/ n = Len(Attempts) THEN "throw"
  ELSE "next"

\* const team = await DB.getTeam(id) (404 if there is none); revokeInvite
\* starts. e is the invite the id of the request names.
RevokeRequest(t, e) ==
  /\ adm.pc = "idle"
  /\ adm' = [pc |-> IF teams[t].exists THEN "revoke" ELSE "done", team |-> t, email |-> e,
             tried |-> <<>>,
             resp |-> IF teams[t].exists THEN [kind |-> "", status |-> 0]
                      ELSE [kind |-> "TeamNotFound", status |-> 0]]
  /\ UNCHANGED <<store, remote, now, jp, tick, okKeys>>

\* One attempt of revokeInvite: the fetch, answered with status, and what
\* follows it. A revoke the remote service accepts takes the invite away;
\* the thrown error carries lastStatus and is answered 500 by the handler.
RevokeAttempt(status) ==
  LET n == Len(adm.tried) + 1
      tried == Append(adm.tried, [attempt |-> Attempts[n], status |-> status])
      outcome == RevokeOutcome(n, status)
  IN /\ adm.pc = "revoke"
     /\ pending' = IF status \in 200..299
                   THEN [pending EXCEPT ![adm.team] = @ \ {adm.email}]
                   ELSE pending
     /\ adm' = CASE outcome = "return" ->
                      [adm EXCEPT !.tried = tried, !.pc = "done",
                                  !.resp = [kind |-> "Success", status |-> status]]
                 [] outcome = "throw" ->
                      [adm EXCEPT !.tried = tried, !.pc = "done",
                                  !.resp = [kind |-> "RevokeFailed", status |-> status]]
                 [] OTHER -> [adm EXCEPT !.tried = tried]
     /\ UNCHANGED <<store, roster, others, now, jp, tick, okKeys>>

\* ------------------------------------------------------ the remote service

\* The invited person accepts: the outstanding invite becomes a membership.
AcceptInvite(t, e) ==
  /\ e \in pending[t]
  /\ pending' = [pending EXCEPT ![t] = @ \ {e}]
  /\ roster' = [roster EXCEPT ![t] = @ \cup {Member(e)}]
  /\ UNCHANGED <<store, others, now, jp, adm, tick, okKeys>>

\* Time passes.
AdvanceTime ==
  /\ now < MaxClock * ClockStepMs
  /\ now' = now + ClockStepMs
  /\ UNCHANGED <<store, remote, jp, adm, tick, okKeys>>

\* --------------------------------------- main.ts, the auto-kick config and job

\* POST /api/admin/auto-kick/config.
SetAutoKickConfig(enabled, startHour, endHour) ==
  /\ config' = [exists |-> TRUE, enabled |-> enabled, startHour |-> startHour,
                endHour |-> endHour]
  /\ UNCHANGED <<teams, keys, invitations, invIndex, kickLogs, nextId, remote, now,
                 jp, adm, tick, okKeys>>

\* now.getHours(), the server's clock being at midnight at time 0.
currentHour(t) == (t \div HourMs) % 24

\* Faulty variant of OutsideWindow: a window with startHour > endHour wraps around
\* midnight.
OutsideWindowWrapping(h, cfg) ==
  IF cfg.startHour <= cfg.endHour THEN h < cfg.startHour \/ h > cfg.endHour
  ELSE h < cfg.startHour /\ h > cfg.endHour

\* if (currentHour < config.startHour || currentHour > config.endHour) return.
OutsideWindow(h, cfg) == h < cfg.startHour \/ h > cfg.endHour

\* Faulty variant of Expired: the confirmation flag is not looked at.
ExpiredIgnoringConfirmed(inv, t) ==
  /\ inv.isTemp
  /\ inv.tempExpireAt # Unset /\ inv.tempExpireAt # 0
  /\ t > inv.tempExpireAt
  /\ inv.status = "success"

\* The invitations the expiry pass takes: inv.isTemp && !inv.isConfirmed &&
\* inv.tempExpireAt && Date.now() > inv.tempExpireAt && inv.status === 'success'.
Expired(inv, t) ==
  /\ inv.isTemp
  /\ ~inv.isConfirmed
  /\ inv.tempExpireAt # Unset /\ inv.tempExpireAt # 0
  /\ t > inv.tempExpireAt
  /\ inv.status = "success"

\* Faulty variant of AutoKickService: the expiry pass removes the members it
\* finds and logs each removal.
AutoKickServiceKicking(ok) ==
  LET cfg == getAutoKickConfig(config)
      open == cfg.enabled /\ ~OutsideWindow(currentHour(now), cfg)
      due == {inv \in invitations : Expired(inv, now)}
      reached == {inv \in due : teams[inv.teamId].exists}
      found == {inv \in reached : inv.id \in ok
                                  /\ \E m \in roster[inv.teamId] : m.email = inv.email}
      kicked == IF open THEN found ELSE {}
      Ids(S) == {inv.id : inv \in S}
  IN /\ tick' =
          IF ~cfg.enabled
          THEN [result |-> "disabled", due |-> {}, fetched |-> {}, found |-> {}]
          ELSE IF OutsideWindow(currentHour(now), cfg)
          THEN [result |-> "outside", due |-> {}, fetched |-> {}, found |-> {}]
          ELSE [result |-> "expiryPass", due |-> Ids(due), fetched |-> Ids(reached),
                found |-> Ids(found)]
     /\ tick.result = ""
     /\ ok \subseteq Ids(reached)
     /\ ok # {} => open
     /\ roster' = [t \in Teams |->
                    {m \in roster[t] :
                       ~\E inv \in kicked : inv.teamId = t /\ inv.email = m.email}]
     /\ kickLogs' = kickLogs \cup
                     {[teamId |-> inv.teamId, email |-> inv.email, reason |-> "expired"] :
                        inv \in kicked}
     /\ UNCHANGED <<teams, keys, invitations, invIndex, config, nextId, others, pending,
                    now, jp, adm, okKeys>>

\* Faulty variant of AutoKickService: the first roster fetch that throws ends
\* the expiry pass (the invitations are taken newest first).
AutoKickServiceStopsAtFailure(ok) ==
  LET cfg == getAutoKickConfig(config)
      due == {inv \in invitations : Expired(inv, now)}
      reached == {inv \in due : teams[inv.teamId].exists}
      Earlier(a, b) == a.createdAt > b.createdAt \/ (a.createdAt = b.createdAt /\ a.id > b.id)
      tried == {inv \in reached :
                  ~\E other \in reached : other.id \notin ok /\ Earlier(other, inv)}
      found == {inv \in tried : inv.id \in ok
                                /\ \E m \in roster[inv.teamId] : m.email = inv.email}
      Ids(S) == {inv.id : inv \in S}
  IN /\ tick' =
          IF ~cfg.enabled
          THEN [result |-> "disabled", due |-> {}, fetched |-> {}, found |-> {}]
          ELSE IF OutsideWindow(currentHour(now), cfg)
          THEN [result |-> "outside", due |-> {}, fetched |-> {}, found |-> {}]
          ELSE [result |-> "expiryPass", due |-> Ids(due), fetched |-> Ids(tried),
                found |-> Ids(found)]
     /\ tick.result = ""
     /\ ok \subseteq Ids(reached)
     /\ ok # {} => cfg.enabled /\ ~OutsideWindow(currentHour(now), cfg)
     /\ UNCHANGED <<store, remote, now, jp, adm, okKeys>>

\* Deno.cron("Auto Kick Service"): the gate on enabled, the gate on the hour
\* window, then the expiry pass, which fetches the roster of the team of each
\* expired invitation and looks the member up (m.email === inv.email); the
\* removal and its kick log are not implemented, nor is the full sync. The
\* fetches of the invitations in ok succeed, the others throw and are logged.
AutoKickService(ok) ==
  LET cfg == getAutoKickConfig(config)
      due == {inv \in invitations : Expired(inv, now)}
      reached == {inv \in due : teams[inv.teamId].exists}
      found == {inv \in reached : inv.id \in ok
                                  /\ \E m \in roster[inv.teamId] : m.email = inv.email}
      Ids(S) == {inv.id : inv \in S}
  IN /\ tick' =
          IF ~cfg.enabled
          THEN [result |-> "disabled", due |-> {}, fetched |-> {}, found |-> {}]
          ELSE IF OutsideWindow(currentHour(now), cfg)
          THEN [result |-> "outside", due |-> {}, fetched |-> {}, found |-> {}]
          ELSE [result |-> "expiryPass", due |-> Ids(due), fetched |-> Ids(reached),
                found |-> Ids(found)]
     /\ tick.result = ""
     /\ ok \subseteq Ids(reached)
     /\ ok # {} => cfg.enabled /\ ~OutsideWindow(currentHour(now), cfg)
     /\ UNCHANGED <<store, remote, now, jp, adm, okKeys>>

TickIdle == [result |-> "", due |-> {}, fetched |-> {}, found |-> {}]

\* The run of the job ends.
AutoKickReturn ==
  /\ tick.result # ""
  /\ tick' = TickIdle
  /\ UNCHANGED <<store, remote, now, jp, adm, okKeys>>

\* ------------------------------------------------------ the specifications

\* Two teams as createTeam leaves them (A the newer), one single-use, one
\* unlimited and one temp key as createAccessKey leaves them, an empty
\* ledger, no configuration written; the remote rosters hold the owner, at
\* most one named member and Capacity - 1 .. MaxOthers further members.
InitOf(hours) ==
  /\ teams = [t \in Teams |-> createTeam(IF t = "A" THEN -1 ELSE -2)]
  /\ \E h \in hours :
       keys = [c \in KeyCodes |->
                 CASE c = "kS" -> createAccessKey(FALSE, FALSE, Unset)
                   [] c = "kU" -> createAccessKey(FALSE, TRUE, Unset)
                   [] c = "kT" -> createAccessKey(TRUE, FALSE, h)]
  /\ invitations = {}
  /\ invIndex = {}
  /\ kickLogs = {}
  /\ config = NoConfig
  /\ nextId = 1
  /\ roster \in [Teams -> {{Owner}} \cup {{Owner, Member(e)} : e \in RosterEmails}]
  /\ others \in [Teams -> (Capacity - 1) .. MaxOthers]
  /\ pending = [t \in Teams |-> {}]
  /\ now = 0
  /\ jp = [p \in Procs |-> Idle]
  /\ adm = AdmIdle
  /\ tick = [result |-> "", due |-> {}, fetched |-> {}, found |-> {}]
  /\ okKeys = {}

Init == InitOf({Unset})

\* No request is in flight.
Quiet ==
  /\ \A p \in Procs : jp[p].pc = "idle"
  /\ adm.pc = "idle"
  /\ tick.result = ""

\* The handlers one at a time, each to completion.
Next ==
  \/ \E e \in JoinEmails \cup {NoEmail}, k \in {"kS", "kU", "none"} :
       Quiet /\ JoinRequest(1, e, k)
  \/ JoinStep(1)
  \/ \E t \in Teams, e \in JoinEmails : Quiet /\ AcceptInvite(t, e)
  \/ \E t \in Teams, e \in JoinEmails \cup {NoEmail} :
       \E m \in nonOwnerMembers(roster[t]) : Quiet /\ KickRequest(t, m, e)
  \/ KickStep

Spec == Init /\ [][Next]_vars

\* The joins with the temp and the single-use key, the clock, the auto-kick
\* configuration and the cron job, one at a time.
InitTick == InitOf(TempHoursChoices)

NextTick ==
  \/ \E k \in {"kT", "kS"} : Quiet /\ JoinRequest(1, Mail("a", FALSE, FALSE), k)
  \/ JoinStepWith(1, {"ok"})
  \/ \E t \in Teams, e \in JoinEmails : Quiet /\ AcceptInvite(t, e)
  \/ Quiet /\ AdvanceTime
  \/ \E enabled \in BOOLEAN, startHour \in HourChoices, endHour \in HourChoices :
       Quiet /\ SetAutoKickConfig(enabled, startHour, endHour)
  \/ \E ok \in SUBSET (1..MaxInvites) : Quiet /\ AutoKickService(ok)
  \/ AutoKickReturn

SpecTick == InitTick /\ [][NextTick]_vars

\* Two join requests for distinct emails with the unlimited key, their
\* steps interleaved at every await.
EmailOf(p) == IF p = 1 THEN Mail("a", FALSE, FALSE) ELSE Mail("b", FALSE, FALSE)

NextConc ==
  \/ \E p \in Procs : JoinRequest(p, EmailOf(p), "kU")
  \/ \E p \in Procs : JoinStepWith(p, {"ok"})

SpecConc == Init /\ [][NextConc]_vars

\* The same two requests, each repeated while invitation ids last, the
\* remote service failing some of their calls.
RaceRequest(p) ==
  /\ jp[p].pc = "idle"
  /\ nextId + Cardinality({q \in Procs \ {p} : jp[q].pc # "idle" /\ jp[q].created = {}})
       <= MaxRaceInvites
  /\ jp' = [jp EXCEPT ![p] = [Idle EXCEPT !.pc = "getKey", !.email = EmailOf(p), !.code = "kU"]]
  /\ UNCHANGED <<store, remote, now, adm, tick, okKeys>>

NextRace ==
  \/ \E p \in Procs : RaceRequest(p)
  \/ \E p \in Procs : JoinStepWith(p, {"ok", "500"})

SpecRace == Init /\ [][NextRace]_vars

\* DELETE /api/admin/teams/:id: DB.deleteTeam, kv.delete(["teams", id]).
DeleteTeam(t) ==
  /\ teams[t].exists
  /\ teams' = [teams EXCEPT ![t] = NoTeam]
  /\ UNCHANGED <<keys, invitations, invIndex, kickLogs, config, nextId,
                 remote, now, jp, adm, tick, okKeys>>

\* One join request at a time, the admin deleting teams at any moment of it.
NextDel ==
  \/ \E e \in JoinEmails : Quiet /\ JoinRequest(1, e, "kU")
  \/ JoinStepWith(1, {"ok", "500"})
  \/ \E t \in Teams : DeleteTeam(t)

SpecDel == Init /\ [][NextDel]_vars

\* DB.updateInvitation(id, { isConfirmed: true }): the stored record with
\* the flag set; a missing id throws. lib/db.ts offers the operation, no
\* route of main.ts calls it.
ConfirmInvitation(id) ==
  /\ \E inv \in invitations : inv.id = id /\ ~inv.isConfirmed
  /\ invitations' = {IF inv.id = id THEN [inv EXCEPT !.isConfirmed = TRUE] ELSE inv :
                       inv \in invitations}
  /\ UNCHANGED <<teams, keys, invIndex, kickLogs, config, nextId, remote, now,
                 jp, adm, tick, okKeys>>

\* Joins with the temp key, invitations being confirmed, and the cron job
\* with auto-kick enabled from hour 0 on.
NextLedger ==
  \/ Quiet /\ JoinRequest(1, Mail("a", FALSE, FALSE), "kT")
  \/ JoinStepWith(1, {"ok"})
  \/ \E t \in Teams : Quiet /\ AcceptInvite(t, Mail("a", FALSE, FALSE))
  \/ Quiet /\ AdvanceTime
  \/ \E id \in 1..MaxInvites : Quiet /\ ConfirmInvitation(id)
  \/ \E endHour \in HourChoices : Quiet /\ SetAutoKickConfig(TRUE, 0, endHour)
  \/ \E ok \in SUBSET (1..MaxInvites) : Quiet /\ AutoKickService(ok)
  \/ AutoKickReturn

SpecLedger == InitTick /\ [][NextLedger]_vars

\* The cron job alone, on rosters whose members the ledger knows nothing of,
\* the admin writing the configuration and time passing. Deno.cron runs the
\* job every five minutes ("*/5 * * * *"), and a run that has started ends:
\* the job is weakly fair.
NextSync ==
  \/ \E enabled \in BOOLEAN, startHour \in HourChoices, endHour \in HourChoices :
       SetAutoKickConfig(enabled, startHour, endHour)
  \/ AdvanceTime
  \/ Quiet /\ AutoKickService({})
  \/ AutoKickReturn

SpecSync ==
  /\ Init
  /\ [][NextSync]_vars
  /\ WF_vars(Quiet /\ AutoKickService({}))
  /\ WF_vars(AutoKickReturn)

\* One join at a time with the unlimited key, the email typed in lower case,
\* in upper case, or with surrounding blanks.
TypedEmails == {Mail("a", up, pad) : up \in BOOLEAN, pad \in BOOLEAN}

NextMail ==
  \/ \E e \in TypedEmails : Quiet /\ JoinRequest(1, e, "kU")
  \/ JoinStepWith(1, {"ok"})
  \/ \E t \in Teams, e \in TypedEmails : Quiet /\ AcceptInvite(t, e)

SpecMail == Init /\ [][NextMail]_vars

\* DELETE /api/admin/keys/:code: DB.deleteAccessKey, kv.delete(["keys", code]).
DeleteAccessKey(code) ==
  /\ keys[code].exists
  /\ keys' = [keys EXCEPT ![code] = NoKey]
  /\ UNCHANGED <<teams, invitations, invIndex, kickLogs, config, nextId,
                 remote, now, jp, adm, tick, okKeys>>

\* One join request at a time, the admin deleting keys at any moment of it.
NextKeyDel ==
  \/ \E e \in JoinEmails, code \in {"kS", "kU"} : Quiet /\ JoinRequest(1, e, code)
  \/ JoinStepWith(1, {"ok"})
  \/ \E code \in KeyCodes : DeleteAccessKey(code)

SpecKeyDel == Init /\ [][NextKeyDel]_vars

\* A join request with any key code; one whose key will pass validation
\* is made while invitation ids last.
KeyRequest(email, code) ==
  /\ jp[1].pc = "idle"
  /\ IF getAccessKey(keys, code).exists /\ ~KeyAlreadyUsed(getAccessKey(keys, code))
     THEN nextId <= MaxRaceInvites
     ELSE TRUE
  /\ jp' = [jp EXCEPT ![1] = [Idle EXCEPT !.pc = "getKey", !.email = email, !.code = code]]
  /\ UNCHANGED <<store, remote, now, adm, tick, okKeys>>

\* One join request at a time, with keys of every kind and unknown codes.
NextKeys ==
  \/ \E code \in KeyCodes \cup {"none"} : Quiet /\ KeyRequest(EmailOf(1), code)
  \/ JoinStepWith(1, {"ok"})
  \/ \E t \in Teams : Quiet /\ AcceptInvite(t, EmailOf(1))

SpecKeys == Init /\ [][NextKeys]_vars

\* Two join requests of different users under way at once, both presenting
\* the single-use key.
NextSingle ==
  \/ \E p \in Procs : JoinRequest(p, EmailOf(p), "kS")
  \/ \E p \in Procs : JoinStepWith(p, {"ok"})

SpecSingle == Init /\ [][NextSingle]_vars

\* A join request and an admin kick under way at once.
NextKick ==
  \/ JoinRequest(1, EmailOf(1), "kU")
  \/ JoinStepWith(1, {"ok"})
  \/ \E t \in Teams : AcceptInvite(t, EmailOf(1))
  \/ \E t \in Teams : \E m \in nonOwnerMembers(roster[t]) : KickRequest(t, m, EmailOf(1))
  \/ KickStep

SpecKick == Init /\ [][NextKick]_vars

\* The admin revoking outstanding invites, one request at a time.
NextRevoke ==
  \/ \E t \in Teams, e \in JoinEmails : RevokeRequest(t, e)
  \/ \E status \in Statuses : RevokeAttempt(status)
  \/ KickReturn

SpecRevoke == Init /\ [][NextRevoke]_vars

\* ------------------------------------------------------------ the claims

\* The live roster of team t as the remote service holds it: the number of
\* its non-owner members, and whether email e is one of them, letter case
\* aside.
LiveNonOwners(t) ==
  Cardinality({m \in roster[t] : m.role # "account-owner"}) + others[t]
HoldsSeat(t, e) ==
  \E m \in roster[t] : m.role # "account-owner" /\ toLowerCase(m.email) = toLowerCase(e)
\* The teams the remote invites among calls went to, in order.
InvitedTeams(calls) ==
  LET inv == SelectSeq(calls, LAMBDA c : c.op = "invite")
  IN [i \in 1..Len(inv) |-> inv[i].team]
\* The key passed validation: the request went on to list the teams.
PassedValidation(j) ==
  j.resp.kind \notin {"MissingFields", "InvalidKey", "KeyAlreadyUsed"}
SingleUse(key) == key.exists /\ ~key.isUnlimited /\ ~key.isTemp
\* Team u comes before team t in the order listTeams returns (newest first).
Before(u, t) == teams[u].createdAt > teams[t].createdAt

\* C1: once a join with a single-use key (isUnlimited=false, isTemp=false)
\* has answered success, every later join with that key is rejected with
\* KeyAlreadyUsed at validation, creating no Invitation and making no remote
\* call.
C1_UsedSingleUseKeyRejected ==
  [][\A p \in Procs :
       (/\ jp[p].pc = "getKey"
        /\ jp[p].code \in okKeys
        /\ SingleUse(getAccessKey(keys, jp[p].code))
        /\ jp'[p].pc # "getKey")
       => /\ jp'[p].pc = "done"
          /\ jp'[p].resp.kind = "KeyAlreadyUsed"
          /\ jp'[p].calls = <<>>
          /\ jp'[p].created = {}
          /\ invitations' = invitations
          /\ remote' = remote]_vars

\* C1 witness: a join with a single-use key that had answered success before
\* is rejected.
C1_Witness ==
  \E p \in Procs :
    /\ jp[p].pc = "done"
    /\ jp[p].resp.kind = "KeyAlreadyUsed"
    /\ jp[p].code \in okKeys

\* C2 as stated: whenever the email holds a non-owner seat in a non-expired
\* team and the key exists, the join answers success naming a team the email
\* holds a seat in, and issues no remote invite.
C2_Original ==
  \A p \in Procs :
    LET j == jp[p] IN
    (/\ j.pc = "done"
     /\ getAccessKey(keys, j.code).exists
     /\ \E t \in Teams : teams[t].tokenStatus = "active" /\ HoldsSeat(t, j.email))
    => /\ j.resp.kind = "AlreadyMember"
       /\ HoldsSeat(j.resp.team, j.email)
       /\ InvitedTeams(j.calls) = <<>>

\* C2 amended: whenever the email holds a non-owner seat in a team that is
\* not expired and whose roster fetch succeeded, a join whose key passed
\* validation answers success naming the first such team in iteration order
\* and issues no remote invite; a join rejected at validation issues none
\* either, and a single-use key the first such call used is rejected with
\* KeyAlreadyUsed on the next.
C2_AlreadyMemberIdempotent ==
  \A p \in Procs :
    LET j == jp[p]
        seats == {t \in Teams : teams[t].tokenStatus = "active" /\ HoldsSeat(t, j.email)}
    IN (j.pc = "done" /\ seats # {})
       => /\ InvitedTeams(j.calls) = <<>>
          /\ PassedValidation(j) =>
               /\ j.resp.kind = "AlreadyMember"
               /\ j.resp.team \in seats
               /\ \A u \in seats : ~Before(u, j.resp.team)
               /\ j.key.exists /\ ~KeyAlreadyUsed(j.key)
          /\ (j.resp.kind = "AlreadyMember" /\ SingleUse(j.key))
               => KeyAlreadyUsed(getAccessKey(keys, j.code))
          /\ (~PassedValidation(j) /\ j.resp.kind # "MissingFields")
               => \/ ~getAccessKey(keys, j.code).exists
                  \/ /\ j.resp.kind = "KeyAlreadyUsed"
                     /\ SingleUse(j.key) /\ j.key.usageCount > 0

\* C2 witness: a repeated join of a seat holder with a reusable key that has
\* been used before answers success again.
C2_Witness ==
  \E p \in Procs :
    /\ jp[p].pc = "done"
    /\ jp[p].resp.kind = "AlreadyMember"
    /\ jp[p].key.usageCount > 0
    /\ InvitedTeams(jp[p].calls) = <<>>

\* The stored invitation with id i.
InvitationOf(i) == CHOOSE inv \in invitations : inv.id = i

\* C3: a join whose key passed validation, whose email holds a seat in no
\* team, and that finds a non-expired team with fewer than 4 non-owner
\* members goes on to the remote invite; when that succeeds, exactly one
\* remote invite was issued, on the first such team in iteration order,
\* exactly one Invitation (status success, that team, the normalized email,
\* the key) was created, the key's usageCount rose by exactly 1 and the
\* team's cached memberCount is its live non-owner count plus 1; no invite
\* is ever issued on a team with 4 or more non-owner members.
C3_NewInviteOnFirstTeamWithCapacity ==
  \A p \in Procs :
    LET j == jp[p]
        t == j.resp.team
        open == {u \in Teams : teams[u].tokenStatus = "active"
                               /\ LiveNonOwners(u) < Capacity}
    IN j.pc = "done" =>
         /\ \A i \in 1..Len(InvitedTeams(j.calls)) :
              LiveNonOwners(InvitedTeams(j.calls)[i]) < Capacity
         /\ (/\ PassedValidation(j)
             /\ \A u \in Teams : ~HoldsSeat(u, j.email)
             /\ open # {})
            => j.resp.kind \in {"Invited", "InviteFailed"}
         /\ j.resp.kind = "Invited" =>
              /\ \A u \in Teams : teams[u].tokenStatus = "active" => ~HoldsSeat(u, j.email)
              /\ t \in open
              /\ \A u \in open : ~Before(u, t)
              /\ InvitedTeams(j.calls) = <<t>>
              /\ j.email \in pending[t]
              /\ Cardinality(j.created) = 1
              /\ \A i \in j.created :
                   /\ \E inv \in invitations : inv.id = i
                   /\ InvitationOf(i).status = "success"
                   /\ InvitationOf(i).teamId = t
                   /\ InvitationOf(i).email = toLowerCase(trim(j.email))
                   /\ InvitationOf(i).keyCode = j.code
              /\ getAccessKey(keys, j.code).usageCount = j.key.usageCount + 1
              /\ teams[t].memberCount = LiveNonOwners(t) + 1

\* C3 witness: the newer team is full and not expired, and the join invited
\* into the older one.
C3_Witness ==
  \E p \in Procs :
    /\ jp[p].pc = "done"
    /\ jp[p].resp.kind = "Invited"
    /\ jp[p].resp.team = "B"
    /\ teams["A"].tokenStatus = "active"
    /\ LiveNonOwners("A") >= Capacity

\* C4: a join whose key passed validation, when every team that was not
\* expired has 4 or more non-owner members and the email holds a seat in no
\* team, answers NoAvailableTeams, creates no Invitation, issues no remote
\* invite and leaves the key as it was.
C4_NoAvailableTeams ==
  \A p \in Procs :
    LET j == jp[p] IN
    (/\ j.pc = "done"
     /\ PassedValidation(j)
     /\ \A i \in 1..Len(j.list) :
          j.list[i].tokenStatus # "expired" => LiveNonOwners(j.list[i].id) >= Capacity
     /\ \A u \in Teams : ~HoldsSeat(u, j.email))
    => /\ j.resp.kind = "NoAvailableTeams"
       /\ j.created = {}
       /\ InvitedTeams(j.calls) = <<>>
       /\ getAccessKey(keys, j.code) = j.key

\* C4 witness: both teams are full and not expired, and the join was
\* answered NoAvailableTeams.
C4_Witness ==
  \E p \in Procs :
    /\ jp[p].pc = "done"
    /\ jp[p].resp.kind = "NoAvailableTeams"
    /\ \A t \in Teams : teams[t].tokenStatus = "active" /\ LiveNonOwners(t) >= Capacity

\* C9: when an admin kick that supplied an email has answered success, the
\* ledger holds no Invitation of that team and (normalized) email, the index
\* entry of that (email, team) is gone, the Invitations of other teams and
\* other emails are as they were, and the count deleteInvitationsByEmail
\* returned is the number of records deleted.
C9_KickDeletesInvitations ==
  (adm.pc = "done" /\ adm.resp = "Success" /\ adm.email # NoEmail)
  => LET e == toLowerCase(trim(adm.email))
         mine(inv) == inv.teamId = adm.team /\ inv.email = e
     IN /\ \A inv \in invitations : ~mine(inv)
        /\ \A x \in invIndex : ~(x.email = e /\ x.teamId = adm.team)
        /\ invitations = {inv \in adm.invites : ~mine(inv)}
        /\ adm.count = Cardinality(adm.invites) - Cardinality(invitations)
        /\ adm.member \notin roster[adm.team]

\* C9 witness: a kick deleted the records of its (team, email) and left
\* another record in the ledger.
C9_Witness ==
  /\ adm.pc = "done"
  /\ adm.resp = "Success"
  /\ adm.count >= 1
  /\ invitations # {}

\* C5 as stated: an Invitation of a temp key has isTemp and expires tempHours
\* hours after it was created, 24 hours when tempHours is not set; an
\* Invitation of a non-temp key has no tempExpireAt.
C5_Original ==
  \A inv \in invitations :
    LET key == keys[inv.keyCode] IN
    IF key.isTemp
    THEN /\ inv.isTemp
         /\ inv.tempExpireAt = inv.createdAt
              + (IF key.tempHours = Unset THEN 24 ELSE key.tempHours) * 3600000
    ELSE ~inv.isTemp /\ inv.tempExpireAt = Unset

\* C5 amended: an Invitation of a temp key has isTemp and expires tempHours
\* hours after it was created, 24 hours when tempHours is not set or is 0,
\* on both paths; an Invitation of a non-temp key has no tempExpireAt.
C5_TempExpireAt ==
  \A inv \in invitations :
    LET key == keys[inv.keyCode] IN
    IF key.isTemp
    THEN /\ inv.isTemp
         /\ inv.tempExpireAt = inv.createdAt
              + (IF key.tempHours \in {Unset, 0} THEN 24 ELSE key.tempHours) * 3600000
    ELSE ~inv.isTemp /\ inv.tempExpireAt = Unset

\* C5 witness: at a time other than 0 a seat holder's join with the temp key
\* is answered, the ledger holding an earlier temp Invitation too.
C5_Witness ==
  \E p \in Procs :
    /\ jp[p].pc = "done"
    /\ jp[p].resp.kind = "AlreadyMember"
    /\ jp[p].key.isTemp
    /\ now > 0
    /\ \E inv \in invitations : inv.isTemp /\ inv.id \notin jp[p].created
    /\ \E inv \in invitations : inv.isTemp /\ inv.id \in jp[p].created

\* The local hour of the clock.
LocalHour == (now \div 3600000) % 24

\* C6 as stated: when a run of the job with auto-kick enabled and the hour
\* inside the window has ended, every temp, unconfirmed, success Invitation
\* with tempExpireAt <= now whose member the job found in the team's roster
\* has a KickLog with reason "expired".
C6_Original ==
  (/\ tick.result # ""
   /\ config.exists /\ config.enabled
   /\ config.startHour <= LocalHour /\ LocalHour <= config.endHour)
  => \A inv \in invitations :
       (/\ inv.isTemp /\ ~inv.isConfirmed /\ inv.status = "success"
        /\ inv.tempExpireAt # Unset /\ inv.tempExpireAt <= now
        /\ inv.id \in tick.found
        /\ \E m \in roster[inv.teamId] : m.email = inv.email)
       => \E log \in kickLogs :
            log.teamId = inv.teamId /\ log.email = inv.email /\ log.reason = "expired"

\* C7: a run of the job while auto-kick is disabled, or no configuration has
\* been written, fetches no roster, finds nothing and leaves the teams, the
\* keys, the ledger and its index, the kick logs and the remote rosters and
\* invites as they were.
C7_DisabledTickNoEffect ==
  [][(/\ tick.result = ""
      /\ tick'.result # ""
      /\ ~config.exists \/ ~config.enabled)
     => /\ tick'.due = {} /\ tick'.fetched = {} /\ tick'.found = {}
        /\ UNCHANGED <<teams, keys, invitations, invIndex, kickLogs, nextId, remote>>]_vars

\* C7 witness: a run with auto-kick disabled has ended while the ledger
\* holds an expired temp Invitation whose member is in the roster.
C7_Witness ==
  /\ tick.result = "disabled"
  /\ \E inv \in invitations :
       /\ inv.isTemp /\ inv.status = "success" /\ inv.tempExpireAt < now
       /\ \E m \in roster[inv.teamId] : m.email = inv.email

\* C8: a run of the enabled job at local hour h is a no-op when h is outside
\* the closed interval [startHour, endHour], which is empty when startHour >
\* endHour, and goes on to the expiry pass, taking every temp, unconfirmed,
\* success Invitation past its tempExpireAt, when startHour <= h <= endHour.
C8_HourWindow ==
  (tick.result # "" /\ config.exists /\ config.enabled)
  => IF config.startHour <= LocalHour /\ LocalHour <= config.endHour
     THEN /\ tick.result = "expiryPass"
          /\ tick.due = {inv.id : inv \in
                          {x \in invitations :
                             /\ x.isTemp /\ ~x.isConfirmed /\ x.status = "success"
                             /\ x.tempExpireAt # Unset /\ x.tempExpireAt < now}}
          /\ tick.fetched = tick.due
     ELSE /\ tick.result = "outside"
          /\ tick.due = {} /\ tick.fetched = {} /\ tick.found = {}

\* C8 witness: an enabled run with startHour > endHour has ended as a no-op
\* while an Invitation was past its tempExpireAt.
C8_Witness ==
  /\ tick.result = "outside"
  /\ config.exists /\ config.enabled
  /\ config.startHour > config.endHour
  /\ \E inv \in invitations : inv.isTemp /\ inv.tempExpireAt < now

\* C10 as stated: on every team that join has placed an invite on, the
\* non-owner members plus the outstanding invites number at most 4, under
\* every interleaving of two join requests for distinct emails.
C10_Original ==
  \A t \in Teams :
    pending[t] # {} => LiveNonOwners(t) + Cardinality(pending[t]) <= 4

\* C11 as stated: incrementUsage is atomic. Every join that answers success
\* has written one Invitation and then called incrementUsage once, so when
\* no request is in flight the usageCount of the key, which is never
\* deleted here, is the number of Invitations made with it.
C11_Original ==
  (\A p \in Procs : jp[p].pc = "idle")
  => \A c \in KeyCodes :
       keys[c].usageCount = Cardinality({inv \in invitations : inv.keyCode = c})

\* C12 as stated: a failure while the scan of join processes one team (its
\* roster fetch, or the updateTeam that follows) never aborts the join: the
\* request is answered by the handler and not by the error middleware, every
\* team whose fetch failed and that is still stored is expired, and unless
\* the scan ended at a team the email was a member of, every team listed as
\* not expired was examined.
C12_Original ==
  \A p \in Procs :
    LET j == jp[p] IN
    (j.pc = "done" /\ j.list # <<>>)
    => /\ j.resp.kind # "ServerError"
       /\ \A i \in 1..Len(j.calls) :
            (/\ j.calls[i].op = "listMembers"
             /\ j.calls[i].outcome # "ok"
             /\ teams[j.calls[i].team].exists)
            => teams[j.calls[i].team].tokenStatus = "expired"
       /\ j.resp.kind # "AlreadyMember"
          => \A k \in 1..Len(j.list) :
               j.list[k].tokenStatus # "expired"
               => \E i \in 1..Len(j.calls) :
                    j.calls[i].op = "listMembers" /\ j.calls[i].team = j.list[k].id

\* C13 as stated: a stored team goes from active to expired only in a step
\* of a request whose last remote call was on that team and was answered
\* with an authentication failure (HTTP 401); no other remote error and no
\* store failure marks a team expired.
C13_Original ==
  [][\A t \in Teams :
       (/\ teams[t].exists /\ teams'[t].exists
        /\ teams[t].tokenStatus = "active"
        /\ teams'[t].tokenStatus = "expired")
       => \E p \in Procs :
            LET c == jp[p].calls IN
            /\ c # <<>>
            /\ c[Len(c)].team = t
            /\ c[Len(c)].outcome = "401"]_vars

\* Team t's live roster holds a non-owner member the ledger has no success
\* Invitation for in that team.
Unauthorized(t) ==
  \/ others[t] > 0
  \/ \E m \in nonOwnerMembers(roster[t]) :
       ~\E inv \in invitations :
          /\ inv.teamId = t /\ inv.status = "success"
          /\ inv.email = toLowerCase(m.email)

\* C14 as stated: if runs of the job with auto-kick enabled and the hour
\* inside the window keep happening, a team whose roster holds a member
\* without a success Invitation comes to hold none, with a KickLog of reason
\* "unauthorized" for that team.
C14_Original ==
  ([]<>(tick.result = "expiryPass"))
  => \A t \in Teams :
       Unauthorized(t)
       ~> (/\ ~Unauthorized(t)
           /\ \E log \in kickLogs : log.teamId = t /\ log.reason = "unauthorized")

\* C15: a run of the job never takes a confirmed Invitation into its expiry
\* pass, however long ago its tempExpireAt was: it is not among the
\* Invitations due, no roster is fetched for it, no member is looked up for
\* it, and no KickLog with reason "expired" names its team and email.
C15_ConfirmedNeverExpires ==
  \A inv \in invitations :
    inv.isConfirmed
    => /\ inv.id \notin tick.due \cup tick.fetched \cup tick.found
       /\ ~\E log \in kickLogs :
            log.teamId = inv.teamId /\ log.email = inv.email /\ log.reason = "expired"

\* C15 witness: an expiry pass has run while the ledger held a confirmed
\* temp Invitation past its tempExpireAt whose member is in the roster.
C15_Witness ==
  /\ tick.result = "expiryPass"
  /\ \E inv \in invitations :
       /\ inv.isConfirmed /\ inv.isTemp /\ inv.status = "success"
       /\ inv.tempExpireAt > 0 /\ inv.tempExpireAt < now
       /\ \E m \in roster[inv.teamId] : m.email = inv.email

\* C16 as stated: the stored usageCount of a key never decreases from one
\* state to the next while the key is stored.
C16_Original ==
  [][\A c \in KeyCodes :
       (keys[c].exists /\ keys'[c].exists)
       => keys'[c].usageCount >= keys[c].usageCount]_vars

\* The last remote call of request j was its invite, and it failed.
FailedInvite(j) ==
  /\ j.calls # <<>>
  /\ j.calls[Len(j.calls)].op = "invite"
  /\ j.calls[Len(j.calls)].outcome # "ok"

C18_Original ==
  [][\A p \in Procs :
       LET j == jp[p]
           t == Target(j)
       IN (j.pc \in {"countSet", "catchSet", "inviteCatchSet"} /\ jp'[p] # j)
          => IF j.pc = "countSet"
             THEN teams[t].tokenStatus = "expired" => teams'[t].tokenStatus = "expired"
             ELSE teams'[t].lastInviteAt = teams[t].lastInviteAt]_vars

\* The success Invitations of email e in team t that none of them is newer
\* than.
LatestSuccess(t, e) ==
  LET mine == {inv \in invitations :
                 inv.teamId = t /\ inv.email = e /\ inv.status = "success"}
  IN {inv \in mine : \A other \in mine : other.createdAt <= inv.createdAt}

C20_Original ==
  \A p \in Procs :
    LET j == jp[p] IN
    (j.pc = "done" /\ j.key.exists /\ PassedValidation(j))
    => \E inv \in invitations :
         /\ inv.id \in j.created
         /\ j.resp.kind \in {"NoAvailableTeams", "InviteFailed"} => inv.status # "success"

\* C21: selecting a candidate does not end the scan of a join whose key
\* passed validation. Unless the join ended at a team the email is a member
\* of, the roster of every team listed as not expired was fetched; when the
\* email is a non-owner member of a team that is not expired, the answer is
\* success for such a team and no remote invite was issued, whichever teams
\* under capacity came earlier; otherwise a successful invite went to the
\* first team under capacity in iteration order.
C21_ScanContinuesPastCandidate ==
  \A p \in Procs :
    LET j == jp[p]
        open == {u \in Teams : teams[u].tokenStatus = "active"
                               /\ LiveNonOwners(u) < Capacity}
    IN (j.pc = "done" /\ PassedValidation(j))
       => /\ j.resp.kind # "AlreadyMember"
             => \A k \in 1..Len(j.list) :
                  j.list[k].tokenStatus # "expired"
                  => \E i \in 1..Len(j.calls) :
                       j.calls[i].op = "listMembers" /\ j.calls[i].team = j.list[k].id
          /\ (\E u \in Teams : teams[u].tokenStatus = "active" /\ HoldsSeat(u, j.email))
             => /\ j.resp.kind = "AlreadyMember"
                /\ HoldsSeat(j.resp.team, j.email)
                /\ InvitedTeams(j.calls) = <<>>
          /\ j.resp.kind = "Invited"
             => /\ j.resp.team \in open
                /\ \A u \in open : ~Before(u, j.resp.team)

\* C21 witness: the newer team A is active and under capacity, the email is
\* a member of the older team B, and the join answered success for B
\* without an invite.
C21_Witness ==
  \E p \in Procs :
    /\ jp[p].pc = "done"
    /\ jp[p].resp = [kind |-> "AlreadyMember", team |-> "B"]
    /\ teams["A"].tokenStatus = "active"
    /\ LiveNonOwners("A") < Capacity
    /\ ~HoldsSeat("A", jp[p].email)
    /\ HoldsSeat("B", jp[p].email)
    /\ InvitedTeams(jp[p].calls) = <<>>

\* C22 as stated: join compares and stores the trimmed, lower-cased email.
\* A join whose key passed validation answers already-a-member whenever the
\* roster of a team that is not expired holds a non-owner email equal to
\* the typed one up to letter case and surrounding blanks, and every
\* Invitation it writes carries the trimmed, lower-cased email.
C22_Original ==
  \A p \in Procs :
    LET j == jp[p]
        typed == toLowerCase(trim(j.email))
    IN (j.pc = "done" /\ PassedValidation(j))
       => /\ (\E u \in Teams :
                /\ teams[u].tokenStatus = "active"
                /\ \E m \in nonOwnerMembers(roster[u]) : toLowerCase(trim(m.email)) = typed)
             => j.resp.kind = "AlreadyMember"
          /\ \A i \in j.created : InvitationOf(i).email = typed

\* The roster of the team of Invitation i holds the email of i as the ledger
\* spells it.
InRoster(i) ==
  \E m \in roster[InvitationOf(i).teamId] : m.email = InvitationOf(i).email

RevokeOrder(tried) ==
  /\ Len(tried) <= 3
  /\ \A n \in 1..Len(tried) :
       /\ tried[n].attempt =
            CASE n = 1 -> [method |-> "DELETE", path |-> ""]
              [] n = 2 -> [method |-> "POST", path |-> "/revoke"]
              [] n = 3 -> [method |-> "POST", path |-> "/cancel"]
       /\ n < Len(tried) => tried[n].status = 405

\* C24 as stated: a revoke request that is answered made its attempts in
\* the fixed order, going on only after a 405; it succeeded exactly when
\* the last answer was a 2xx status, and otherwise raised an error carrying
\* the last status, the last answer being other than 405 or the third one.
C24_Original ==
  ("tried" \in DOMAIN adm /\ adm.pc = "done" /\ adm.tried # <<>>)
  => LET last == adm.tried[Len(adm.tried)].status IN
     /\ RevokeOrder(adm.tried)
     /\ IF last \in 200..299
        THEN adm.resp = [kind |-> "Success", status |-> last]
        ELSE /\ adm.resp = [kind |-> "RevokeFailed", status |-> last]
             /\ last # 405 \/ Len(adm.tried) = 3

\* C24 amended: the same with success exactly when the last answer was 200
\* or 204; every other status but 405, other 2xx statuses such as 201
\* included, ends the attempts with an error carrying it. A request still
\* under way has made fewer than three attempts, all answered 405.
C24_RevokeStrategies ==
  "tried" \in DOMAIN adm
  => /\ RevokeOrder(adm.tried)
     /\ adm.pc = "revoke"
        => Len(adm.tried) < 3 /\ \A n \in 1..Len(adm.tried) : adm.tried[n].status = 405
     /\ (adm.pc = "done" /\ adm.tried # <<>>)
        => LET last == adm.tried[Len(adm.tried)].status IN
           IF last \in {200, 204}
           THEN adm.resp = [kind |-> "Success", status |-> last]
           ELSE /\ adm.resp = [kind |-> "RevokeFailed", status |-> last]
                /\ last # 405 \/ Len(adm.tried) = 3

\* C24 witness: the direct DELETE was answered 405, the POST revoke 204, and
\* the request succeeded without a POST cancel.
C24_Witness ==
  /\ "tried" \in DOMAIN adm
  /\ adm.pc = "done"
  /\ Len(adm.tried) = 2
  /\ adm.tried[1].status = 405
  /\ adm.tried[2].status = 204
  /\ adm.resp.kind = "Success"

\* C25 as stated: once a key has been deleted it stays absent from the
\* store, whatever incrementKeyUsage is under way for its code.
C25_Original ==
  [][\A code \in KeyCodes : ~keys[code].exists => ~keys'[code].exists]_vars

\* C26: a join answers InvalidKey or KeyAlreadyUsed as the first thing it
\* does after the request is read: it has made no remote call and created
\* no Invitation, the step leaves teams, keys, ledger and remote service as
\* they were, and the key of a KeyAlreadyUsed answer is neither temp nor
\* unlimited.
C26_RejectedJoinChangesNothing ==
  [][\A p \in Procs :
       (/\ jp[p].pc # "done"
        /\ jp'[p].pc = "done"
        /\ jp'[p].resp.kind \in {"InvalidKey", "KeyAlreadyUsed"})
       => /\ jp[p].pc = "getKey"
          /\ jp'[p].calls = <<>>
          /\ jp'[p].created = {}
          /\ store' = store
          /\ remote' = remote
          /\ jp'[p].resp.kind = "KeyAlreadyUsed"
             => LET key == getAccessKey(keys, jp[p].code) IN
                key.exists /\ ~key.isTemp /\ ~key.isUnlimited /\ key.usageCount > 0]_vars

\* C26 witness: a join is rejected with KeyAlreadyUsed after the temp key
\* had been accepted twice, the second time with usageCount 1.
C26_Witness ==
  \E p \in Procs :
    /\ jp[p].pc = "done"
    /\ jp[p].resp.kind = "KeyAlreadyUsed"
    /\ jp[p].calls = <<>>
    /\ Cardinality({inv \in invitations : inv.keyCode = "kT"}) = 2

\* The request has issued a remote invite that was accepted.
Invited(j) == \E i \in 1..Len(j.calls) : j.calls[i].op = "invite" /\ j.calls[i].outcome = "ok"

\* C27 as stated: of the join requests presenting the same single-use key,
\* at most one issues a remote invite, at most one success Invitation
\* carries the key's code, and at most one answers success.
C27_Original ==
  \A code \in KeyCodes :
    SingleUse(getAccessKey(keys, code))
    => /\ Cardinality({p \in Procs : jp[p].code = code /\ Invited(jp[p])}) <= 1
       /\ Cardinality({inv \in invitations : inv.keyCode = code /\ inv.status = "success"}) <= 1
       /\ Cardinality({p \in Procs : jp[p].code = code /\ jp[p].pc = "done"
                                     /\ jp[p].resp.kind \in {"AlreadyMember", "Invited"}}) <= 1

\* C28 as stated: with joins alone at work, a team that has been marked
\* expired stays expired, and no join fetches the roster of an expired team
\* or invites into it.
C28_Original ==
  [][\A t \in Teams :
       (teams[t].exists /\ teams[t].tokenStatus = "expired")
       => /\ teams'[t].tokenStatus = "expired"
          /\ \A p \in Procs :
               Len(jp'[p].calls) > Len(jp[p].calls)
               => jp'[p].calls[Len(jp'[p].calls)].team # t]_vars

\* C29 as stated, read at the states where no request is in flight: each
\* index entry refers to an Invitation of the ledger with that email and
\* team, and every (email, team) with an Invitation has an index entry.
C29_Original ==
  Quiet
  => /\ \A x \in invIndex :
          \E inv \in invitations :
            inv.id = x.id /\ inv.email = x.email /\ inv.teamId = x.teamId
     /\ \A inv \in invitations :
          \E x \in invIndex : x.email = inv.email /\ x.teamId = inv.teamId
====
